---- MODULE Spec2Model ----
(***************************************************************************)
(* A model of the incoming-damage timeline: the IncomingDamage class of    *)
(* main.py (fetch, classification, party and tank profiles) and the run of *)
(* generate_static_page.main over the logs mapping.                        *)
(*                                                                         *)
(* Conventions.  A nullable value (a polars null, a Python None) is the    *)
(* empty tuple Null; a present value v is the one-element tuple Some(v).   *)
(* Boolean expressions over nullable columns follow polars' three-valued   *)
(* logic (Not3, And3) and DataFrame.filter keeps a row only when its       *)
(* predicate is true.  Times are kept in integer milliseconds: the column  *)
(* elapsed_seconds holds 1000 times the float of the code, and the median  *)
(* of a group (a half-millisecond in an even group) holds 2000 times it.   *)
(* Columns that no filter, join or grouping reads (hitType, amount,        *)
(* formatted_time) are left out of the tables.  The field src of a table   *)
(* row and the field members of a profile row are history fields: the      *)
(* position of the raw event the row came from.                            *)
(***************************************************************************)
EXTENDS Integers, Sequences, FiniteSets, TLC

VARIABLES
    logs,                   \* generate_static_page.logs: the fights, in order
    pc,                     \* position of main()
    idx,                    \* position of the for loop over logs.items()
    stage,                  \* position inside generate_fight_section / the API use
    html_content,           \* the document built so far, a sequence of parts
    file,                   \* docs/index.html: Null until written
    requests,               \* requests.post calls sent, per fight
    outcome,                \* per fight: "pending", "ok" or the exception raised
    exc,                    \* the exception in flight, Null when none
    damage_category_dict,   \* IncomingDamage's configuration argument
    event_response,         \* self.event_response
    start_timestamp,        \* self.start_timestamp
    tank_ids,               \* self.tank_ids
    non_tank_ids,           \* self.non_tank_ids
    vuln_ids,               \* self.vuln_ids
    damage_category_table,  \* self.damage_category_table
    damage_events_table,    \* self.damage_events_table
    call,                   \* the last profile call and its arguments
    party_damage_agg,       \* result of get_incoming_damage_profile
    tank_damage_df,         \* result of get_incoming_tank_damage_profile
    party_damage_fig,       \* figure of plot_party_damage
    tank_damage_fig         \* figure of plot_tank_damage

vars == <<logs, pc, idx, stage, html_content, file, requests, outcome, exc,
          damage_category_dict, event_response, start_timestamp, tank_ids,
          non_tank_ids, vuln_ids, damage_category_table, damage_events_table,
          call, party_damage_agg, tank_damage_df, party_damage_fig,
          tank_damage_fig>>

run_vars == <<logs, pc, idx, html_content, file, requests, outcome>>

object_vars == <<damage_category_dict, event_response, start_timestamp, tank_ids,
                 non_tank_ids, vuln_ids, damage_category_table,
                 damage_events_table>>

result_vars == <<call, party_damage_agg, tank_damage_df, party_damage_fig,
                 tank_damage_fig>>

-----------------------------------------------------------------------------
(* Nullable values and three-valued logic *)

Null == <<>>

Some(v) == <<v>>

IsNull(x) == Len(x) = 0

Val(x) == x[1]

IsTrue(x) == Len(x) = 1 /\ x[1] = TRUE

Not3(a) == IF IsNull(a) THEN Null ELSE Some(~Val(a))

And3(a, b) ==
    IF (~IsNull(a) /\ ~Val(a)) \/ (~IsNull(b) /\ ~Val(b)) THEN Some(FALSE)
    ELSE IF IsNull(a) \/ IsNull(b) THEN Null
    ELSE Some(TRUE)

-----------------------------------------------------------------------------
(* Bounds and program constants *)

MaxEvents == 2

party_damage_ceiling == 300000

tank_damage_ceiling == 600000

TANKS == {"DarkKnight", "Gunbreaker", "Warrior", "Paladin"}

DAMAGE_TYPE(id) ==
    IF id = 128 THEN "Physical" ELSE IF id = 1024 THEN "Magical" ELSE "unknown"

-----------------------------------------------------------------------------
(* Inputs: the category configurations and the API responses *)

\* A configuration in the dict format: ability id -> metadata dict.  A key a
\* dict lacks is absent from the record's domain.
DictConfig ==
    << [ability_id |-> 101,
        metadata |-> [damage_category |-> Some("party"),
                      is_tank_damage |-> Some(FALSE),
                      ability_name |-> Some("Raidwide"),
                      description |-> Some("Heavy raidwide")]],
       [ability_id |-> 102,
        metadata |-> [damage_category |-> Some("tank"),
                      is_tank_damage |-> Some(TRUE),
                      ability_name |-> Some("Buster"),
                      description |-> Some("")]],
       [ability_id |-> 103,
        metadata |-> [damage_category |-> Some("stack"),
                      ability_name |-> Some("Stack")]],
       [ability_id |-> 104,
        metadata |-> [damage_category |-> Null,
                      is_tank_damage |-> Some(FALSE),
                      ability_name |-> Some("Bleed")]] >>

\* A configuration in the old format: ability id -> category.
LegacyConfig ==
    << [ability_id |-> 101, metadata |-> [simple |-> Some("party")]],
       [ability_id |-> 102, metadata |-> [simple |-> Some("tank")]],
       [ability_id |-> 103, metadata |-> [simple |-> Some("stack")]] >>

Configs == {DictConfig, LegacyConfig}

\* playerDetails, already flattened over its role keys.
PlayerDetails ==
    << [name |-> "Tank", id |-> 1, icon |-> "Warrior"],
       [name |-> "Healer", id |-> 2, icon |-> "WhiteMage"],
       [name |-> "Melee", id |-> 3, icon |-> "Ninja"] >>

AuraTables ==
    { << [name |-> "Vulnerability Up", guid |-> 1001],
         [name |-> "Damage Down", guid |-> 1002] >>,
      << [name |-> "Damage Down", guid |-> 1002] >> }

StartingEvents ==
    { << [type |-> "limitbreakupdate", timestamp |-> 5000] >>,
      << [type |-> "combatantinfo", timestamp |-> 5000] >> }

Raidwide == [name |-> "Raidwide", guid |-> 101, type |-> 1024]

Buster == [name |-> "Buster", guid |-> 102, type |-> 128]

Stack == [name |-> "Stack", guid |-> 103, type |-> 1024]

Bleed == [name |-> "Bleed", guid |-> 104, type |-> 1]

Auto == [name |-> "attack", guid |-> 105, type |-> 128]

Ev(type, ts, pkt, amt, tgt, buffs, ab) ==
    [type |-> type, timestamp |-> ts, packetID |-> pkt, unmitigatedAmount |-> amt,
     targetID |-> tgt, buffs |-> buffs, ability |-> ab]

VulnBuff == Some(<<"1001", ".">>)

OtherBuff == Some(<<"1002", ".">>)

BothBuffs == Some(<<"1002", ".", "1001", ".">>)

\* The events a response is made of.  An event without a buffs key reads as
\* null; a buffs string is its aura ids, each followed by a dot.
EventPool ==
    { Ev("damage", 6000, Some(1), Some(100000), 2, Null, Raidwide),
      Ev("damage", 6000, Some(1), Some(100001), 3, OtherBuff, Raidwide),
      Ev("calculateddamage", 6000, Some(1), Some(100000), 2, Null, Raidwide),
      Ev("damage", 7000, Some(2), Some(110000), 3, Null, Raidwide),
      Ev("damage", 7000, Some(2), Some(120000), 2, VulnBuff, Raidwide),
      Ev("damage", 7000, Some(2), Some(299999), 1, Null, Raidwide),
      Ev("damage", 7000, Some(2), Some(300000), 3, Null, Raidwide),
      Ev("damage", 7000, Some(2), Null, 2, Null, Raidwide),
      Ev("damage", 7000, Some(3), Some(500000), 1, Null, Buster),
      Ev("damage", 7000, Some(3), Some(500000), 1, BothBuffs, Buster),
      Ev("damage", 7000, Some(3), Some(600000), 1, Null, Buster),
      Ev("damage", 7000, Some(3), Some(150000), 2, Null, Buster),
      Ev("damage", 7000, Some(4), Some(90000), 3, OtherBuff, Stack),
      Ev("damage", 7000, Null, Some(130000), 3, Null, Raidwide),
      Ev("damage", 7000, Null, Some(20000), 2, Null, Bleed),
      Ev("damage", 7000, Some(5), Some(80000), 2, Null, Auto),
      Ev("damage", 7000, Some(5), Some(80000), 1, VulnBuff, Auto) }

\* The API returns the events of a fight in time order.
InTimeOrder(evs) ==
    \A i \in 1..(Len(evs) - 1) : evs[i].timestamp <= evs[i + 1].timestamp

EventSeqs ==
    {evs \in UNION {[1..n -> EventPool] : n \in 0..MaxEvents} : InTimeOrder(evs)}

Responses ==
    [playerDetails : {PlayerDetails}, buffTable : AuraTables,
     startingEvent : StartingEvents, events : EventSeqs]

NoResponse ==
    [playerDetails |-> <<>>, buffTable |-> <<>>, startingEvent |-> <<>>,
     events |-> <<>>]

-----------------------------------------------------------------------------
(* Sequence helpers *)

RECURSIVE SeqToSet(_)
SeqToSet(s) == IF s = <<>> THEN {} ELSE {Head(s)} \cup SeqToSet(Tail(s))

RECURSIVE MapId(_)
MapId(s) == IF s = <<>> THEN <<>> ELSE <<Head(s).id>> \o MapId(Tail(s))

RECURSIVE Insert(_, _)
Insert(x, s) ==
    IF s = <<>> THEN <<x>>
    ELSE IF x <= Head(s) THEN <<x>> \o s
    ELSE <<Head(s)>> \o Insert(x, Tail(s))

RECURSIVE Sorted(_)
Sorted(s) == IF s = <<>> THEN <<>> ELSE Insert(Head(s), Sorted(Tail(s)))

\* Twice the median of a non-empty sequence of integers: the middle element,
\* or the mean of the two middle elements, of the sorted values.
Median2(s) ==
    LET t == Sorted(s)
        n == Len(t)
    IN IF n % 2 = 1 THEN 2 * t[(n + 1) \div 2] ELSE t[n \div 2] + t[n \div 2 + 1]


-----------------------------------------------------------------------------
(* FFLogsAPI and the construction of IncomingDamage *)

\* str.lower() on the aura names of the responses and on the fight names.
Lower(name) ==
    CASE name = "Vulnerability Up" -> "vulnerability up"
      [] name = "Damage Down" -> "damage down"
      [] name = "M9N" -> "m9n"
      [] name = "M10N" -> "m10n"
      [] OTHER -> name

\* The first limitbreakupdate of startingEvent; without one, the timestamp of
\* the first event of the damage page.  Null: the fallback's [0] raised.
get_start_timestamp(response) ==
    LET lb == SelectSeq(response.startingEvent,
                        LAMBDA e : e.type = "limitbreakupdate")
    IN IF lb # <<>> THEN Some(lb[1].timestamp)
       ELSE IF response.events # <<>> THEN Some(response.events[1].timestamp)
       ELSE Null

get_party_table(response) == response.playerDetails

get_role_ids(party_table) ==
    [tank_ids |-> MapId(SelectSeq(party_table, LAMBDA p : p.icon \in TANKS)),
     not_tank_ids |-> MapId(SelectSeq(party_table, LAMBDA p : p.icon \notin TANKS))]

RECURSIVE MapGuid(_)
MapGuid(s) == IF s = <<>> THEN <<>> ELSE <<Head(s).guid>> \o MapGuid(Tail(s))

get_vuln_ids(response) ==
    MapGuid(SelectSeq(response.buffTable,
                      LAMBDA b : Lower(b.name) = "vulnerability up"))

\* dict.get(key, default)
Get(metadata, key, default) ==
    IF key \in DOMAIN metadata THEN metadata[key] ELSE default

IsDict(metadata) == "simple" \notin DOMAIN metadata

CategoryRow(item) ==
    LET m == item.metadata
        description == Get(m, "description", Null)
    IN IF IsDict(m)
       THEN [ability_id |-> item.ability_id,
             damage_category |-> Get(m, "damage_category", Null),
             is_tank_damage |-> Get(m, "is_tank_damage", Some(FALSE)),
             ability_name |-> Get(m, "ability_name", Null),
             description |-> IF ~IsNull(description) /\ Val(description) # ""
                             THEN description ELSE Null]
       ELSE [ability_id |-> item.ability_id,
             damage_category |-> m.simple,
             is_tank_damage |-> Some(FALSE),
             ability_name |-> Null,
             description |-> Null]

get_damage_category_table(party_damage_dict) ==
    [k \in 1..Len(party_damage_dict) |-> CategoryRow(party_damage_dict[k])]

\* str.strip_chars_end("."): every trailing dot goes.
RECURSIVE strip_chars_end(_)
strip_chars_end(s) ==
    IF s # <<>> /\ s[Len(s)] = "."
    THEN strip_chars_end(SubSeq(s, 1, Len(s) - 1))
    ELSE s

\* str.split("."): the pieces between the dots.
RECURSIVE split(_, _)
split(s, piece) ==
    IF s = <<>> THEN <<piece>>
    ELSE IF Head(s) = "." THEN <<piece>> \o split(Tail(s), <<>>)
    ELSE split(Tail(s), Append(piece, Head(s)))

\* cast(Int64) of one piece of a buffs string.
CastInt(piece) ==
    CASE piece = <<"1001">> -> 1001
      [] piece = <<"1002">> -> 1002

make_buff_list_col(buffs) ==
    IF IsNull(buffs) THEN Null
    ELSE LET pieces == split(strip_chars_end(Val(buffs)), <<>>)
         IN Some([k \in 1..Len(pieces) |-> CastInt(pieces[k])])

\* list.eval(is_in(vuln_ids)).list.any(), a null list filled with False.
flag_vuln_status(ids, buff_list) ==
    IF IsNull(buff_list) THEN FALSE
    ELSE \E k \in 1..Len(Val(buff_list)) : Val(buff_list)[k] \in SeqToSet(ids)

flag_tank_player_id(ids, targetID) == targetID \in SeqToSet(ids)

\* when(damage_category == "party").then(packetID).otherwise(elapsed_seconds):
\* a null comparison takes the otherwise branch, and the integer packetID is
\* cast to the float type of elapsed_seconds (here: times 1000).
assign_group_by_field(row) ==
    IF ~IsNull(row.damage_category) /\ Val(row.damage_category) = "party"
    THEN IF IsNull(row.packetID) THEN Null ELSE Some(1000 * Val(row.packetID))
    ELSE Some(row.elapsed_seconds)

\* The select and with_columns of _get_damage_events_table on one raw event.
SelectColumns(src, e, start, tanks, vulns) ==
    [src |-> src,
     elapsed_seconds |-> e.timestamp - start,
     packetID |-> e.packetID,
     unmitigatedAmount |-> e.unmitigatedAmount,
     targetID |-> e.targetID,
     buff_list |-> make_buff_list_col(e.buffs),
     ability_name |-> e.ability.name,
     ability_id |-> e.ability.guid,
     damage_type_id |-> e.ability.type,
     is_tank |-> flag_tank_player_id(tanks, e.targetID),
     is_vuln_damage |-> flag_vuln_status(vulns, make_buff_list_col(e.buffs)),
     damage_type |-> DAMAGE_TYPE(e.ability.type)]

CategoryColumns(c) ==
    [damage_category |-> c.damage_category,
     is_tank_damage |-> c.is_tank_damage,
     ability_name_right |-> c.ability_name,
     description |-> c.description]

NullCategoryColumns ==
    [damage_category |-> Null, is_tank_damage |-> Null,
     ability_name_right |-> Null, description |-> Null]

RECURSIVE InnerJoin(_, _)
InnerJoin(rows, table) ==
    IF rows = <<>> THEN <<>>
    ELSE LET r == Head(rows)
             matches == SelectSeq(table, LAMBDA c : c.ability_id = r.ability_id)
         IN [k \in 1..Len(matches) |-> r @@ CategoryColumns(matches[k])]
            \o InnerJoin(Tail(rows), table)

\* join(on="ability_id", how="left"): every left row once per matching right
\* row, and once with nulls when none matches.
RECURSIVE LeftJoin(_, _)
LeftJoin(rows, table) ==
    IF rows = <<>> THEN <<>>
    ELSE LET r == Head(rows)
             matches == SelectSeq(table, LAMBDA c : c.ability_id = r.ability_id)
         IN (IF matches = <<>> THEN <<r @@ NullCategoryColumns>>
             ELSE [k \in 1..Len(matches) |-> r @@ CategoryColumns(matches[k])])
            \o LeftJoin(Tail(rows), table)

\* from_records builds a column for each key some event carries; the select
\* raises on a column no event carries, and on an empty page.
MissingColumn(response) ==
    \/ response.events = <<>>
    \/ \E col \in {"packetID", "unmitigatedAmount", "buffs"} :
          \A k \in 1..Len(response.events) : IsNull(response.events[k][col])

get_damage_events_table(response, start, tanks, vulns, table) ==
    LET evs == response.events
        all == [k \in 1..Len(evs) |-> [src |-> k, ev |-> evs[k]]]
        raw == SelectSeq(all, LAMBDA x : x.ev.type = "damage")
        selected == [k \in 1..Len(raw) |->
                        SelectColumns(raw[k].src, raw[k].ev, start, tanks, vulns)]
        joined == LeftJoin(selected, table)
    IN [k \in 1..Len(joined) |->
           joined[k] @@ [group_by_field |-> assign_group_by_field(joined[k])]]


-----------------------------------------------------------------------------
(* The profiles *)

Lt3(amount, ceiling) ==
    IF IsNull(amount) THEN Null ELSE Some(Val(amount) < ceiling)

party_predicate_keeps_vuln(r) ==
    And3(And3(And3(Not3(Some(r.is_tank)), Not3(r.is_tank_damage)),
              Some(~IsNull(r.unmitigatedAmount))),
         Lt3(r.unmitigatedAmount, party_damage_ceiling))

party_predicate_at_ceiling(r) ==
    And3(And3(And3(And3(Not3(Some(r.is_tank)), Not3(r.is_tank_damage)),
                   Not3(Some(r.is_vuln_damage))),
              Some(~IsNull(r.unmitigatedAmount))),
         Lt3(r.unmitigatedAmount, party_damage_ceiling + 1))

\* The filter expression of get_incoming_damage_profile.
party_predicate(r) ==
    And3(And3(And3(And3(Not3(Some(r.is_tank)), Not3(r.is_tank_damage)),
                   Not3(Some(r.is_vuln_damage))),
              Some(~IsNull(r.unmitigatedAmount))),
         Lt3(r.unmitigatedAmount, party_damage_ceiling))

party_damage_rows(table, filter_uncategorized_damage) ==
    LET party_damage == SelectSeq(table, LAMBDA r : IsTrue(party_predicate(r)))
    IN IF filter_uncategorized_damage
       THEN SelectSeq(party_damage, LAMBDA r : ~IsNull(r.damage_category))
       ELSE party_damage

GroupIndex(groups, key) ==
    {i \in 1..Len(groups) : groups[i].key = key}

RECURSIVE group_by_no_merge(_, _)
group_by_no_merge(rows, groups) ==
    IF rows = <<>> THEN groups
    ELSE group_by_no_merge(Tail(rows),
             Append(groups, [key |-> Head(rows).group_by_field,
                             rows |-> <<Head(rows)>>]))

\* group_by("group_by_field"): the rows of each key, in row order; a null key
\* is a group of its own.
RECURSIVE group_by(_, _)
group_by(rows, groups) ==
    IF rows = <<>> THEN groups
    ELSE LET r == Head(rows)
             at == GroupIndex(groups, r.group_by_field)
         IN group_by(Tail(rows),
                IF at = {}
                THEN Append(groups, [key |-> r.group_by_field, rows |-> <<r>>])
                ELSE LET i == CHOOSE i \in at : TRUE
                     IN [groups EXCEPT ![i].rows = Append(@, r)])

RECURSIVE Column(_, _)
Column(rows, col) ==
    IF rows = <<>> THEN <<>> ELSE <<Head(rows)[col]>> \o Column(Tail(rows), col)

RECURSIVE Values(_)
Values(column) ==
    IF column = <<>> THEN <<>> ELSE <<Val(Head(column))>> \o Values(Tail(column))

\* The agg of _aggregate_incoming_damage on one group.  elapsed_seconds holds
\* twice the median; cast(int) truncates the median of the amounts.
Agg(g) ==
    [group_by_field |-> g.key,
     elapsed_seconds |-> Median2(Column(g.rows, "elapsed_seconds")),
     ability_name |-> g.rows[1].ability_name,
     unmitigatedAmount |-> Median2(Values(Column(g.rows, "unmitigatedAmount"))) \div 2,
     description |-> g.rows[1].description,
     damage_type |-> g.rows[1].damage_type,
     damage_type_id |-> g.rows[1].damage_type_id,
     members |-> Column(g.rows, "src")]

\* sort("elapsed_seconds"): group_by returns its groups in no fixed order and
\* the sort is not stable, so rows of equal time may come in any order.
SortedOrders(rows) ==
    LET n == Len(rows)
        ps == {p \in Permutations(1..n) :
                  \A i \in 1..(n - 1) :
                      rows[p[i]].elapsed_seconds <= rows[p[i + 1]].elapsed_seconds}
    IN {[i \in 1..n |-> rows[p[i]]] : p \in ps}

aggregate_incoming_damage(filtered_damage_events) ==
    LET groups == group_by(filtered_damage_events, <<>>)
    IN SortedOrders([k \in 1..Len(groups) |-> Agg(groups[k])])

\* The set of frames get_incoming_damage_profile may return.
get_incoming_damage_profile(table, filter_uncategorized_damage) ==
    aggregate_incoming_damage(party_damage_rows(table, filter_uncategorized_damage))

tank_predicate_any_target(r) ==
    And3(And3(r.is_tank_damage, Some(~IsNull(r.unmitigatedAmount))),
         Lt3(r.unmitigatedAmount, tank_damage_ceiling))

\* The filter expression of get_incoming_tank_damage_profile.
tank_predicate(r) ==
    And3(And3(And3(Some(r.is_tank), r.is_tank_damage),
              Some(~IsNull(r.unmitigatedAmount))),
         Lt3(r.unmitigatedAmount, tank_damage_ceiling))

TankColumns(r) ==
    [src |-> r.src,
     elapsed_seconds |-> r.elapsed_seconds,
     ability_name |-> r.ability_name,
     unmitigatedAmount |-> r.unmitigatedAmount,
     targetID |-> r.targetID,
     description |-> r.description,
     damage_type |-> r.damage_type,
     damage_type_id |-> r.damage_type_id]

get_incoming_tank_damage_profile_keeps_vulns(table, filter_uncategorized_events, filter_vulns) ==
    LET tank_damage == SelectSeq(table, LAMBDA r : IsTrue(tank_predicate(r)))
    IN [k \in 1..Len(tank_damage) |-> TankColumns(tank_damage[k])]

get_incoming_tank_damage_profile(table, filter_uncategorized_events, filter_vulns) ==
    LET tank_damage == SelectSeq(table, LAMBDA r : IsTrue(tank_predicate(r)))
        kept == IF filter_vulns
                THEN SelectSeq(tank_damage, LAMBDA r : ~r.is_vuln_damage)
                ELSE tank_damage
    IN [k \in 1..Len(kept) |-> TankColumns(kept[k])]


-----------------------------------------------------------------------------
(* The initial states *)

Fights ==
    { [fight_name |-> "M9N", party_damage |-> DictConfig],
      [fight_name |-> "M10N", party_damage |-> LegacyConfig] }

\* The logs mapping: fights under distinct names, in insertion order.
LogsChoices ==
    {l \in UNION {[1..n -> Fights] : n \in 0..Cardinality(Fights)} :
        \A i, j \in 1..Len(l) : i # j => l[i].fight_name # l[j].fight_name}

NoObject ==
    /\ damage_category_dict = <<>>
    /\ event_response = NoResponse
    /\ start_timestamp = Null
    /\ tank_ids = <<>>
    /\ non_tank_ids = <<>>
    /\ vuln_ids = <<>>
    /\ damage_category_table = <<>>
    /\ damage_events_table = <<>>

NoResults ==
    /\ call = Null
    /\ party_damage_agg = <<>>
    /\ tank_damage_df = <<>>
    /\ party_damage_fig = Null
    /\ tank_damage_fig = Null

\* generate_static_page run as a script.
Init ==
    /\ logs \in LogsChoices
    /\ pc = "start"
    /\ idx = 0
    /\ stage = "idle"
    /\ html_content = <<>>
    /\ file = Null
    /\ requests = [i \in 1..Len(logs) |-> 0]
    /\ outcome = [i \in 1..Len(logs) |-> "pending"]
    /\ exc = Null
    /\ NoObject
    /\ NoResults

\* main.py run as a script: one IncomingDamage object, then calls on it.
InitAPI ==
    /\ logs \in {<<[fight_name |-> "m11n", party_damage |-> c]>> : c \in Configs}
    /\ pc = "api"
    /\ idx = 1
    /\ stage = "idle"
    /\ html_content = <<>>
    /\ file = Null
    /\ requests = <<0>>
    /\ outcome = <<"pending">>
    /\ exc = Null
    /\ NoObject
    /\ NoResults

-----------------------------------------------------------------------------
(* IncomingDamage.__init__ *)

Raise(error) ==
    /\ stage' = "raised"
    /\ exc' = Some(error)
    /\ outcome' = [outcome EXCEPT ![idx] = error]

\* FFLogsAPI.__init__, get_incoming_damage and gql_query: one POST, whose
\* failure (the request itself, or raise_for_status) propagates.
gql_query ==
    /\ pc \in {"loop", "api"}
    /\ idx \in 1..Len(logs)
    /\ stage = "idle"
    /\ requests' = [requests EXCEPT ![idx] = @ + 1]
    /\ damage_category_dict' = logs[idx].party_damage
    /\ \/ /\ \E response \in Responses : event_response' = response
          /\ stage' = "fetched"
          /\ UNCHANGED <<exc, outcome>>
       \/ /\ Raise("HTTPError")
          /\ UNCHANGED event_response
    /\ UNCHANGED <<logs, pc, idx, html_content, file, start_timestamp, tank_ids,
                   non_tank_ids, vuln_ids, damage_category_table,
                   damage_events_table>>
    /\ UNCHANGED result_vars

\* The rest of IncomingDamage.__init__, from the response to the tables.
init_tables ==
    /\ stage = "fetched"
    /\ LET start == get_start_timestamp(event_response)
           roles == get_role_ids(get_party_table(event_response))
           vulns == get_vuln_ids(event_response)
           table == get_damage_category_table(damage_category_dict)
       IN IF IsNull(start)
          THEN /\ Raise("IndexError")
               /\ UNCHANGED <<start_timestamp, tank_ids, non_tank_ids, vuln_ids,
                              damage_category_table, damage_events_table>>
          ELSE /\ start_timestamp' = start
               /\ tank_ids' = roles.tank_ids
               /\ non_tank_ids' = roles.not_tank_ids
               /\ vuln_ids' = vulns
               /\ damage_category_table' = table
               /\ IF MissingColumn(event_response)
                  THEN /\ Raise("ColumnNotFoundError")
                       /\ UNCHANGED damage_events_table
                  ELSE /\ damage_events_table' =
                              get_damage_events_table(event_response, Val(start),
                                                      roles.tank_ids, vulns, table)
                       /\ stage' = "constructed"
                       /\ UNCHANGED <<exc, outcome>>
    /\ UNCHANGED <<logs, pc, idx, html_content, file, requests,
                   damage_category_dict, event_response>>
    /\ UNCHANGED result_vars

-----------------------------------------------------------------------------
(* Calls on a constructed object (main.py as a library) *)

call_get_incoming_damage_profile ==
    /\ pc = "api"
    /\ stage = "constructed"
    /\ \E filter_uncategorized_damage \in BOOLEAN :
          /\ call' = Some([fn |-> "get_incoming_damage_profile",
                           args |-> <<filter_uncategorized_damage>>])
          /\ party_damage_agg' \in
                 get_incoming_damage_profile(damage_events_table,
                                             filter_uncategorized_damage)
    /\ stage' = "returned"
    /\ UNCHANGED <<tank_damage_df, party_damage_fig, tank_damage_fig, exc>>
    /\ UNCHANGED run_vars
    /\ UNCHANGED object_vars

call_get_incoming_tank_damage_profile ==
    /\ pc = "api"
    /\ stage = "constructed"
    /\ \E filter_uncategorized_events \in BOOLEAN, filter_vulns \in BOOLEAN :
          /\ call' = Some([fn |-> "get_incoming_tank_damage_profile",
                           args |-> <<filter_uncategorized_events, filter_vulns>>])
          /\ tank_damage_df' =
                 get_incoming_tank_damage_profile(damage_events_table,
                                                  filter_uncategorized_events,
                                                  filter_vulns)
    /\ stage' = "returned"
    /\ UNCHANGED <<party_damage_agg, party_damage_fig, tank_damage_fig, exc>>
    /\ UNCHANGED run_vars
    /\ UNCHANGED object_vars

NextAPI ==
    \/ gql_query
    \/ init_tables
    \/ call_get_incoming_damage_profile
    \/ call_get_incoming_tank_damage_profile

SpecAPI == InitAPI /\ [][NextAPI]_vars


-----------------------------------------------------------------------------
(* generate_static_page *)

generate_html_header == [part |-> "header"]

generate_html_footer == [part |-> "footer"]

generate_table_of_contents_as_written(fights) ==
    [part |-> "toc",
     links |-> [k \in 1..Len(fights) |->
                   [href |-> fights[k].fight_name, text |-> fights[k].fight_name]]]

\* One link per key of the mapping, href="#{fight_name.lower()}".
generate_table_of_contents(fights) ==
    [part |-> "toc",
     links |-> [k \in 1..Len(fights) |->
                   [href |-> Lower(fights[k].fight_name),
                    text |-> fights[k].fight_name]]]

\* The section generate_fight_section returns.
DataSection(fight_name) ==
    [part |-> "section", id |-> Lower(fight_name), title |-> fight_name,
     body |-> "data", message |-> Null]

\* The section of the except branch of main.
ErrorSection(fight_name, e) ==
    [part |-> "section", id |-> Lower(fight_name), title |-> fight_name,
     body |-> "error", message |-> Some(e)]

ClearObject ==
    /\ damage_category_dict' = <<>>
    /\ event_response' = NoResponse
    /\ start_timestamp' = Null
    /\ tank_ids' = <<>>
    /\ non_tank_ids' = <<>>
    /\ vuln_ids' = <<>>
    /\ damage_category_table' = <<>>
    /\ damage_events_table' = <<>>
    /\ call' = Null
    /\ party_damage_agg' = <<>>
    /\ tank_damage_df' = <<>>
    /\ party_damage_fig' = Null
    /\ tank_damage_fig' = Null

\* main, up to the loop: the header and the table of contents.
begin_main ==
    /\ pc = "start"
    /\ html_content' = <<generate_html_header, generate_table_of_contents(logs)>>
    /\ pc' = "loop"
    /\ idx' = 1
    /\ UNCHANGED <<logs, stage, file, requests, outcome, exc>>
    /\ UNCHANGED object_vars
    /\ UNCHANGED result_vars

\* generate_fight_section: party_damage_agg = get_incoming_damage_profile().
profile_party_damage ==
    /\ pc = "loop"
    /\ stage = "constructed"
    /\ call' = Some([fn |-> "get_incoming_damage_profile", args |-> <<TRUE>>])
    /\ party_damage_agg' \in get_incoming_damage_profile(damage_events_table, TRUE)
    /\ stage' = "profiled"
    /\ UNCHANGED <<tank_damage_df, party_damage_fig, tank_damage_fig, exc>>
    /\ UNCHANGED run_vars
    /\ UNCHANGED object_vars

plot_party_damage_refetch ==
    /\ pc = "loop"
    /\ stage = "profiled"
    /\ requests' = [requests EXCEPT ![idx] = @ + 1]
    /\ \E data \in get_incoming_damage_profile(damage_events_table, TRUE) :
          party_damage_fig' =
              Some([title |-> <<logs[idx].fight_name, "Party damage">>,
                    data |-> data])
    /\ call' = Some([fn |-> "plot_party_damage", args |-> <<logs[idx].fight_name>>])
    /\ stage' = "party_plotted"
    /\ UNCHANGED <<party_damage_agg, tank_damage_df, tank_damage_fig, exc>>
    /\ UNCHANGED <<logs, pc, idx, html_content, file, outcome>>
    /\ UNCHANGED object_vars

\* plot_party_damage: a bar chart of get_incoming_damage_profile().
plot_party_damage ==
    /\ pc = "loop"
    /\ stage = "profiled"
    /\ \E data \in get_incoming_damage_profile(damage_events_table, TRUE) :
          party_damage_fig' =
              Some([title |-> <<logs[idx].fight_name, "Party damage">>,
                    data |-> data])
    /\ call' = Some([fn |-> "plot_party_damage", args |-> <<logs[idx].fight_name>>])
    /\ stage' = "party_plotted"
    /\ UNCHANGED <<party_damage_agg, tank_damage_df, tank_damage_fig, exc>>
    /\ UNCHANGED run_vars
    /\ UNCHANGED object_vars

\* plot_tank_damage: a bar chart of get_incoming_tank_damage_profile().
plot_tank_damage ==
    /\ pc = "loop"
    /\ stage = "party_plotted"
    /\ tank_damage_df' =
           get_incoming_tank_damage_profile(damage_events_table, TRUE, FALSE)
    /\ tank_damage_fig' =
           Some([title |-> <<logs[idx].fight_name, "tank damage">>,
                 data |-> tank_damage_df'])
    /\ call' = Some([fn |-> "plot_tank_damage",
                     args |-> <<logs[idx].fight_name, FALSE>>])
    /\ stage' = "tank_plotted"
    /\ UNCHANGED <<party_damage_agg, party_damage_fig, exc>>
    /\ UNCHANGED run_vars
    /\ UNCHANGED object_vars

\* The section is built and appended; the loop moves on.
append_section ==
    /\ pc = "loop"
    /\ stage = "tank_plotted"
    /\ html_content' = Append(html_content, DataSection(logs[idx].fight_name))
    /\ outcome' = [outcome EXCEPT ![idx] = "ok"]
    /\ idx' = idx + 1
    /\ stage' = "idle"
    /\ ClearObject
    /\ UNCHANGED <<logs, pc, file, requests, exc>>

handle_exception_abort ==
    /\ pc = "loop"
    /\ stage = "raised"
    /\ pc' = "aborted"
    /\ stage' = "idle"
    /\ exc' = Null
    /\ ClearObject
    /\ UNCHANGED <<logs, idx, html_content, file, requests, outcome>>

\* except Exception as e: the error section; the loop moves on.
handle_exception ==
    /\ pc = "loop"
    /\ stage = "raised"
    /\ html_content' =
           Append(html_content, ErrorSection(logs[idx].fight_name, Val(exc)))
    /\ exc' = Null
    /\ idx' = idx + 1
    /\ stage' = "idle"
    /\ ClearObject
    /\ UNCHANGED <<logs, pc, file, requests, outcome>>

\* After the loop: the footer, and the file is written.
write_file ==
    /\ pc = "loop"
    /\ stage = "idle"
    /\ idx = Len(logs) + 1
    /\ html_content' = Append(html_content, generate_html_footer)
    /\ file' = Some(html_content')
    /\ pc' = "done"
    /\ UNCHANGED <<logs, idx, stage, requests, outcome, exc>>
    /\ UNCHANGED object_vars
    /\ UNCHANGED result_vars

Next ==
    \/ begin_main
    \/ gql_query
    \/ init_tables
    \/ profile_party_damage
    \/ plot_party_damage
    \/ plot_tank_damage
    \/ append_section
    \/ handle_exception
    \/ write_file

Spec == Init /\ [][Next]_vars


-----------------------------------------------------------------------------
(* What the properties read: the raw events and the configuration *)

Raw(src) == event_response.events[src]

Rows(table) == {table[k] : k \in 1..Len(table)}

Members(row) == SeqToSet(row.members)

VulnAuraIds ==
    {event_response.buffTable[k].guid : k \in
        {j \in 1..Len(event_response.buffTable) :
            Lower(event_response.buffTable[j].name) = "vulnerability up"}}

\* The event's buffs string names a Vulnerability Up aura.
HasVulnBuff(e) ==
    /\ ~IsNull(e.buffs)
    /\ \E k \in 1..Len(Val(e.buffs)) :
          /\ Val(e.buffs)[k] # "."
          /\ CastInt(<<Val(e.buffs)[k]>>) \in VulnAuraIds

TargetIsTank(e) ==
    \E k \in 1..Len(event_response.playerDetails) :
        /\ event_response.playerDetails[k].id = e.targetID
        /\ event_response.playerDetails[k].icon \in TANKS

Configured(ability_id) ==
    \E k \in 1..Len(damage_category_dict) :
        damage_category_dict[k].ability_id = ability_id

MetadataOf(ability_id) ==
    LET k == CHOOSE k \in 1..Len(damage_category_dict) :
                 damage_category_dict[k].ability_id = ability_id
    IN damage_category_dict[k].metadata

ConfiguredCategory(ability_id) ==
    IF ~Configured(ability_id) THEN Null
    ELSE LET m == MetadataOf(ability_id)
         IN IF "simple" \in DOMAIN m THEN m.simple
            ELSE IF "damage_category" \in DOMAIN m THEN m.damage_category
            ELSE Null

ConfiguredTankFlag(ability_id) ==
    IF ~Configured(ability_id) THEN Null
    ELSE LET m == MetadataOf(ability_id)
         IN IF "is_tank_damage" \in DOMAIN m THEN m.is_tank_damage
            ELSE Some(FALSE)

BelowCeiling(e, ceiling) ==
    /\ ~IsNull(e.unmitigatedAmount)
    /\ Val(e.unmitigatedAmount) < ceiling

DamageSrcs ==
    {k \in 1..Len(event_response.events) : Raw(k).type = "damage"}

PartyReturned ==
    /\ stage = "returned"
    /\ Val(call).fn = "get_incoming_damage_profile"

TankReturned ==
    /\ stage = "returned"
    /\ Val(call).fn = "get_incoming_tank_damage_profile"

ProfileMembers == UNION {Members(r) : r \in Rows(party_damage_agg)}

TankSrcs == {r.src : r \in Rows(tank_damage_df)}


PartyEligible(src, filter_uncategorized_damage) ==
    LET e == Raw(src)
    IN /\ e.type = "damage"
       /\ ~TargetIsTank(e)
       /\ ConfiguredTankFlag(e.ability.guid) = Some(FALSE)
       /\ ~HasVulnBuff(e)
       /\ BelowCeiling(e, party_damage_ceiling)
       /\ filter_uncategorized_damage => ~IsNull(ConfiguredCategory(e.ability.guid))

TankEligible(src) ==
    LET e == Raw(src)
    IN /\ e.type = "damage"
       /\ TargetIsTank(e)
       /\ ConfiguredTankFlag(e.ability.guid) = Some(TRUE)
       /\ BelowCeiling(e, tank_damage_ceiling)

IsPartyHit(src) == ConfiguredCategory(Raw(src).ability.guid) = Some("party")

\* How many times the event at src is a member of a row of the party profile.
Contributions(src) ==
    Cardinality({ik \in UNION {{<<i, k>> : k \in 1..Len(party_damage_agg[i].members)} :
                                  i \in 1..Len(party_damage_agg)} :
                    party_damage_agg[ik[1]].members[ik[2]] = src})

SameRow(s, t) ==
    \E r \in Rows(party_damage_agg) : s \in Members(r) /\ t \in Members(r)

HasTables == stage \in {"constructed", "returned"}

-----------------------------------------------------------------------------
(* Properties of the IncomingDamage object, under SpecAPI *)

\* C2: no damage event whose buffs name a Vulnerability Up aura contributes to
\* a row of the party profile, for either value of filter_uncategorized_damage;
\* is_vuln_damage is true exactly for those events, and an event without buffs
\* is never flagged as vulnerability damage.
C2_NoVulnInPartyProfile ==
    /\ PartyReturned => \A src \in ProfileMembers : ~HasVulnBuff(Raw(src))
    /\ \A r \in Rows(damage_events_table) :
          /\ r.is_vuln_damage = HasVulnBuff(Raw(r.src))
          /\ IsNull(Raw(r.src).buffs) => ~r.is_vuln_damage

\* A party profile was returned with filter_uncategorized_damage=False from a
\* table holding a vulnerability hit that passes every other party condition
\* and a hit without buffs.
C2_Witness ==
    /\ PartyReturned
    /\ Val(call).args = <<FALSE>>
    /\ party_damage_agg # <<>>
    /\ \E r \in Rows(damage_events_table) :
          /\ HasVulnBuff(Raw(r.src))
          /\ ~TargetIsTank(Raw(r.src))
          /\ ConfiguredTankFlag(r.ability_id) = Some(FALSE)
          /\ BelowCeiling(Raw(r.src), party_damage_ceiling)
    /\ \E r \in Rows(damage_events_table) : IsNull(Raw(r.src).buffs)

\* C3 as claimed: with the default arguments (filter_vulns=False) no event
\* taken under Vulnerability Up appears in the tank profile.
C3_NoVulnInTankProfileByDefault ==
    (TankReturned /\ Val(call).args = <<TRUE, FALSE>>)
        => \A src \in TankSrcs : ~HasVulnBuff(Raw(src))

\* C3 as amended: with filter_vulns=True no event taken under Vulnerability Up
\* appears in the tank profile; with filter_vulns=False (the default) every
\* such event that meets the tank conditions is kept.
C3_VulnInTankProfileFollowsFilterVulns ==
    TankReturned =>
        /\ Val(call).args[2] => \A src \in TankSrcs : ~HasVulnBuff(Raw(src))
        /\ ~Val(call).args[2] =>
              \A src \in DamageSrcs :
                  (TankEligible(src) /\ HasVulnBuff(Raw(src))) => src \in TankSrcs

\* A tank profile was returned with filter_vulns=True from a table holding a
\* tank hit under Vulnerability Up and one without it.
C3_Witness ==
    /\ TankReturned
    /\ Val(call).args = <<TRUE, TRUE>>
    /\ tank_damage_df # <<>>
    /\ \E src \in DamageSrcs : TankEligible(src) /\ HasVulnBuff(Raw(src))

\* C4: the party profile is deduplicated.  No two rows share a group_by_field
\* value; an event contributes to exactly one row if it passes the party
\* filter and to none otherwise; party-category hits of one packetID share a
\* row, and other events of one elapsed_seconds value share a row.
C4_PartyProfileDeduplicated ==
    PartyReturned =>
        /\ \A i, j \in 1..Len(party_damage_agg) :
              i # j => party_damage_agg[i].group_by_field
                           # party_damage_agg[j].group_by_field
        /\ \A src \in 1..Len(event_response.events) :
              Contributions(src) =
                  IF PartyEligible(src, Val(call).args[1]) THEN 1 ELSE 0
        /\ \A s, t \in ProfileMembers :
              /\ (IsPartyHit(s) /\ IsPartyHit(t)
                    /\ Raw(s).packetID = Raw(t).packetID) => SameRow(s, t)
              /\ (~IsPartyHit(s) /\ ~IsPartyHit(t)
                    /\ Raw(s).timestamp = Raw(t).timestamp) => SameRow(s, t)

\* Two hits were collapsed into one row of the party profile.
C4_Witness ==
    /\ PartyReturned
    /\ \E r \in Rows(party_damage_agg) : Len(r.members) = 2

\* C5: classification is a lookup in the configuration.  Every raw event of
\* type "damage" is exactly one row of the damage events table and no other
\* event is a row; a row's damage_category and is_tank_damage are the values
\* configured for its ability id, and both are null when the id is not
\* configured.
C5_ClassificationIsLookup ==
    HasTables =>
        /\ \A k \in 1..Len(event_response.events) :
              Cardinality({i \in 1..Len(damage_events_table) :
                              damage_events_table[i].src = k})
                  = IF Raw(k).type = "damage" THEN 1 ELSE 0
        /\ \A r \in Rows(damage_events_table) :
              /\ r.ability_id = Raw(r.src).ability.guid
              /\ r.damage_category = ConfiguredCategory(r.ability_id)
              /\ r.is_tank_damage = ConfiguredTankFlag(r.ability_id)
              /\ ~Configured(r.ability_id) =>
                    IsNull(r.damage_category) /\ IsNull(r.is_tank_damage)

\* A table was built from a response holding an event of another type and a
\* hit of an ability the configuration does not know.
C5_Witness ==
    /\ stage = "constructed"
    /\ \E k \in 1..Len(event_response.events) : Raw(k).type # "damage"
    /\ \E r \in Rows(damage_events_table) : ~Configured(r.ability_id)

\* C8 as claimed: with filter_uncategorized_damage=False a hit of an ability
\* absent from the configuration that meets the other party conditions is in
\* the party profile; with filter_uncategorized_damage=True it is not.
C8_UncategorizedIncludedWhenUnfiltered ==
    PartyReturned =>
        \A src \in DamageSrcs :
            (/\ ~Configured(Raw(src).ability.guid)
             /\ ~TargetIsTank(Raw(src))
             /\ ~HasVulnBuff(Raw(src))
             /\ BelowCeiling(Raw(src), party_damage_ceiling))
                => (src \in ProfileMembers <=> ~Val(call).args[1])

\* C9: every event that contributes to a row of the party profile has a target
\* that is not a tank, an ability not flagged is_tank_damage and a non-null
\* unmitigatedAmount below party_damage_ceiling; so has every row's
\* unmitigatedAmount.
C9_PartyRowsBelowCeiling ==
    PartyReturned =>
        \A r \in Rows(party_damage_agg) :
            /\ \A src \in Members(r) :
                  /\ ~TargetIsTank(Raw(src))
                  /\ ConfiguredTankFlag(Raw(src).ability.guid) # Some(TRUE)
                  /\ BelowCeiling(Raw(src), party_damage_ceiling)
            /\ r.unmitigatedAmount < party_damage_ceiling

\* A row of the party profile holds the truncated median of two different
\* amounts.
C9_Witness ==
    /\ PartyReturned
    /\ \E r \in Rows(party_damage_agg) :
          /\ r.unmitigatedAmount = 100000
          /\ {Val(Raw(src).unmitigatedAmount) : src \in Members(r)}
                 = {100000, 100001}

\* C10: the tank profile has exactly one row per damage event whose target is
\* a tank, whose ability is flagged is_tank_damage and whose unmitigatedAmount
\* is non-null and below tank_damage_ceiling, less the vulnerability hits when
\* filter_vulns is set; rows are events, not aggregates; and
\* filter_uncategorized_events does not change the result.
C10_TankProfileRows ==
    TankReturned =>
        /\ \A src \in 1..Len(event_response.events) :
              Cardinality({i \in 1..Len(tank_damage_df) : tank_damage_df[i].src = src})
                  = IF /\ TankEligible(src)
                       /\ Val(call).args[2] => ~HasVulnBuff(Raw(src))
                    THEN 1 ELSE 0
        /\ \A r \in Rows(tank_damage_df) :
              /\ r.unmitigatedAmount = Raw(r.src).unmitigatedAmount
              /\ r.targetID = Raw(r.src).targetID
        /\ tank_damage_df =
               get_incoming_tank_damage_profile(damage_events_table,
                                                ~Val(call).args[1],
                                                Val(call).args[2])

\* A tank profile was returned from a table that also holds a hit of a
\* tank-flagged ability on a player who is not a tank.
C10_Witness ==
    /\ TankReturned
    /\ tank_damage_df # <<>>
    /\ \E r \in Rows(damage_events_table) :
          /\ ConfiguredTankFlag(r.ability_id) = Some(TRUE)
          /\ ~TargetIsTank(Raw(r.src))
          /\ BelowCeiling(Raw(r.src), tank_damage_ceiling)


-----------------------------------------------------------------------------
(* Properties of the run of generate_static_page.main, under Spec *)

Failed(i) == outcome[i] \notin {"pending", "ok"}

SectionOf(i) == html_content[i + 2]

\* C1: whatever fights raise, the run goes on to the end.  Each fight that
\* raised has an error section carrying the message of its exception in place
\* of its data section, every other fight has been processed and has its data
\* section, and the file is written with the footer last.
C1_FailuresAreReported ==
    /\ pc \in {"start", "loop", "done"}
    /\ stage = "raised" => (~IsNull(exc) /\ ENABLED handle_exception)
    /\ (pc = "loop" /\ stage = "idle") => idx \in 1..(Len(logs) + 1)
    /\ pc = "done" =>
          /\ file = Some(html_content)
          /\ Len(html_content) = Len(logs) + 3
          /\ html_content[Len(html_content)].part = "footer"
          /\ \A i \in 1..Len(logs) :
                /\ outcome[i] # "pending"
                /\ SectionOf(i).part = "section"
                /\ SectionOf(i).title = logs[i].fight_name
                /\ Failed(i) => /\ SectionOf(i).body = "error"
                                /\ SectionOf(i).message = Some(outcome[i])
                /\ ~Failed(i) => /\ SectionOf(i).body = "data"
                                 /\ requests[i] = 1

\* The file was written after a fight that raised and a later fight that did
\* not.
C1_Witness ==
    /\ pc = "done"
    /\ Len(logs) = 2
    /\ Failed(1)
    /\ outcome[2] = "ok"

\* C6: one request is sent per fight, whether it succeeds or fails: none
\* before the fight is reached, one once it is under way, and neither a
\* failure nor the later profile and plot calls add another.
C6_OneRequestPerFight ==
    \A i \in 1..Len(logs) :
        /\ requests[i] <= 1
        /\ (pc = "loop" /\ i > idx) => requests[i] = 0
        /\ (pc = "loop" /\ i = idx) => (requests[i] = 1 <=> stage # "idle")
        /\ (pc = "loop" /\ i < idx) => requests[i] = 1
        /\ pc = "done" => requests[i] = 1

\* The second fight has gone through its profile and both plots after the
\* first fight's request failed.
C6_Witness ==
    /\ pc = "loop"
    /\ idx = 2
    /\ stage = "tank_plotted"
    /\ outcome[1] = "HTTPError"

\* The document: the header, the table of contents with one link per fight,
\* then one section per fight handled so far, in the order of logs, each with
\* the id its link points to, and at the end the footer.
C7_Document ==
    pc \in {"loop", "done"} =>
        /\ Len(html_content) = idx + 1 + (IF pc = "done" THEN 1 ELSE 0)
        /\ html_content[1].part = "header"
        /\ html_content[2].part = "toc"
        /\ Len(html_content[2].links) = Len(logs)
        /\ \A i \in 1..Len(logs) :
              html_content[2].links[i].text = logs[i].fight_name
        /\ \A i \in 1..(idx - 1) :
              /\ SectionOf(i).part = "section"
              /\ SectionOf(i).body \in {"data", "error"}
              /\ SectionOf(i).title = logs[i].fight_name
              /\ SectionOf(i).id = Lower(logs[i].fight_name)
              /\ SectionOf(i).id = html_content[2].links[i].href
        /\ pc = "done" =>
              /\ idx = Len(logs) + 1
              /\ html_content[Len(html_content)].part = "footer"

\* The steps: a fight's response is fetched first, its tables are built from
\* the fetched response, its profile from the tables, its plots after the
\* profile and its data section after the plots; the loop goes through the
\* fights one by one.
C7_StepOrder ==
    /\ stage' = "fetched" => stage = "idle"
    /\ stage' = "constructed" => stage = "fetched" /\ event_response # NoResponse
    /\ stage' = "profiled" => stage = "constructed"
    /\ stage' = "party_plotted" => stage = "profiled"
    /\ stage' = "tank_plotted" => stage = "party_plotted"
    /\ (idx' # idx /\ pc = "loop") =>
          /\ idx' = idx + 1
          /\ stage \in {"tank_plotted", "raised"}
          /\ stage' = "idle"
          /\ html_content' # html_content
          /\ html_content'[Len(html_content')].body = "data"
                 <=> stage = "tank_plotted"
    /\ html_content' # html_content => (idx' # idx \/ pc' # pc)

\* C7: a run is linear, fetch, classify, aggregate, render for one fight after
\* the other in the order of logs, and the document is the header, the table
\* of contents, one section per fight in that order under the id its link
\* points to, and the footer.
C7_RunIsLinear == []C7_Document /\ [][C7_StepOrder]_vars

\* The file was written with the data sections of two fights.
C7_Witness ==
    /\ pc = "done"
    /\ Len(logs) = 2
    /\ SectionOf(1).body = "data"
    /\ SectionOf(2).body = "data"


====
